---- MODULE Spec2Model ----
(***************************************************************************)
(* Model of hummingbird-agent/tools/backtest_runner.py: run_backtest, the  *)
(* execution engine that folds a strategy's trade intents into a ledger    *)
(* (cash, position, trades) and derives the summary result.                *)
(*                                                                         *)
(* Arithmetic.  Prices, sizes, timestamps and slippage_bps are integers.   *)
(* Money (cash, exec_price, cost, equity, pnl) is kept exactly, in units   *)
(* of 1/Scale: exec_price = price +/- price * slippage_bps / 10000 is the  *)
(* integer price * Scale +/- price * slippage_bps.  The binary rounding    *)
(* error of Python floats is not modelled.  The fields of the result are   *)
(* rounded as the code rounds them and are kept in hundredths.             *)
(***************************************************************************)
EXTENDS Integers, Sequences, FiniteSets, TLC

\* ------------------------------------------------------------------ bounds
MaxIntents == 2

\* longest equity curve given to compute_metrics
MaxCurve == 4
\* longest intent stream of the runs on one configuration
MaxDeep == 3
\* longest bar series given to simple_momentum
MaxBars == 3

\* --------------------------------------------------------------- constants
\* 10000.0 of "slippage_bps / 10000.0": one basis point is 1/10000
Scale == 10000
\* rounding unit of round(x, 2) in units of 1/Scale
Cent == 100

\* ------------------------------------------------------------------ inputs
None == "None"
Keys == {"time", "side", "price", "size"}

StartingCashSet == {0, 101, 1000}
LatencySet      == {-1, 0, 3}
SlippageSet     == {-1, 0, 1, 50000}

TimeSet  == {1, 2}
PriceSet == {99, 101}
SizeSet  == {1, 2}

\* data_csv: the rows of the file, in file order
Bar(ts, c) == [timestamp |-> ts, close |-> c]
CsvFiles ==
  { << >>,
    << Bar(3, 99), Bar(1, 100), Bar(2, 101) >> }

\* a dict without one of its keys
Drop(d, key) == [k \in (DOMAIN d) \ {key} |-> d[k]]

WellFormedIntents == [time : TimeSet, side : {"buy", "sell"}, price : PriceSet, size : SizeSet]

BaseIntents ==
  { [time |-> 1, side |-> "buy",  price |-> 99, size |-> 1],
    [time |-> 1, side |-> "sell", price |-> 99, size |-> 1] }

MalformedIntents ==
  { [time |-> 1, side |-> "hold", price |-> 99, size |-> 1] }
    \cup { Drop(b, k) : b \in BaseIntents, k \in Keys }

\* intents with all four fields whose size is negative
NegativeSizeIntents == { [b EXCEPT !["size"] = -1] : b \in BaseIntents }

\* what a strategy (a black box to the engine) may yield
Intents == WellFormedIntents \cup NegativeSizeIntents \cup MalformedIntents

\* ------------------------------------------------------------------- state
VARIABLES
  pc,             \* "start", "loop", "done", "error"
  starting_cash,  \* parameter
  latency_ms,     \* parameter
  slippage_bps,   \* parameter
  df,             \* the loaded bars
  cash,           \* in units of 1/Scale
  position,
  trades,         \* list of executed trades (dicts)
  emitted,        \* history: the intents the strategy has yielded so far
  src,            \* history: src[i] is the index in emitted of trades[i]
  result,         \* the returned dict, or NoResult
  err,            \* the exception that ended the run, or None
  first,          \* history: the inputs and outcome of an earlier call, or NoRun
  equity_curve,   \* compute_metrics: the argument
  metrics         \* compute_metrics: the returned dict, or NoResult

vars == << pc, starting_cash, latency_ms, slippage_bps, df, cash, position,
           trades, emitted, src, result, err, first, equity_curve, metrics >>

\* what run_backtest does not touch
outside == << first, equity_curve, metrics >>

\* the value of result while nothing has been returned
NoResult == [returned |-> FALSE]

\* the value of first while run_backtest has been called once only
NoRun == [ran |-> FALSE]

\* ----------------------------------------------------------------- helpers
\* dict.get(key, default)
Get(d, key, default) == IF key \in DOMAIN d THEN d[key] ELSE default

\* insert a row into a list sorted by timestamp, after the rows not later
RECURSIVE InsertByTimestamp(_, _)
InsertByTimestamp(row, s) ==
  IF s = << >> THEN << row >>
  ELSE IF row.timestamp < Head(s).timestamp
       THEN << row >> \o s
       ELSE << Head(s) >> \o InsertByTimestamp(row, Tail(s))

\* DataFrame.sort_values('timestamp')
RECURSIVE SortValues(_)
SortValues(rows) ==
  IF rows = << >> THEN << >>
  ELSE InsertByTimestamp(rows[Len(rows)], SortValues(SubSeq(rows, 1, Len(rows) - 1)))

\* nearest integer to num / den (den > 0), ties to even: Python's round()
RoundHalfEven(num, den) ==
  LET q == num \div den
      r == num % den
  IN  IF 2 * r < den THEN q
      ELSE IF 2 * r > den THEN q + 1
      ELSE IF q % 2 = 0 THEN q ELSE q + 1

\* round(x, 2) of an amount x given in units of 1/Scale; the value is in hundredths
Round2(x) == RoundHalfEven(x, Cent)

ExecPrice_SameSign(side, price, bps) == price * Scale + price * bps

ExecPrice_Latency(side, price, bps) ==
  IF side = "buy" THEN price * Scale + price * bps + latency_ms
                  ELSE price * Scale - price * bps - latency_ms

\* slip = price * (slippage_bps / 10000.0);
\* exec_price = price + slip if side == 'buy' else price - slip
ExecPrice(side, price, bps) ==
  IF side = "buy" THEN price * Scale + price * bps
                  ELSE price * Scale - price * bps

\* exec_time = trade['time'] + pd.Timedelta(milliseconds=latency_ms)
ExecTime(trade, latency) == trade["time"] + latency

\* cost = exec_price * size
Cost(exec_price, size) == exec_price * size

BuyAccepted_Always(c, cost) == TRUE
BuyAccepted_Strict(c, cost) == c > cost

\* if cash >= cost
BuyAccepted(c, cost) == c >= cost

SellAccepted_Strict(p, size) == p > size

\* if position >= size
SellAccepted(p, size) == p >= size

\* {**trade, 'exec_time': exec_time, 'exec_price': exec_price}
ExecutedTrade(trade, exec_time, exec_price) ==
  [k \in (DOMAIN trade) \cup {"exec_time", "exec_price"} |->
     IF k = "exec_time" THEN exec_time
     ELSE IF k = "exec_price" THEN exec_price
     ELSE trade[k]]

AppendTrade_Front(ts, t) == << t >> \o ts

\* trades.append(...)
AppendTrade(ts, t) == Append(ts, t)

\* last_price = df['close'].iloc[-1]
LastPrice(d) == d[Len(d)].close

Equity_CashOnly(c, p, last_price) == c

\* equity = cash + position * last_price
Equity(c, p, last_price) == c + p * last_price * Scale

\* pnl = equity - starting_cash
Pnl(equity, start) == equity - start * Scale

\* [t for t in trades if t['side'] == 'sell' and t['exec_price'] > t['price']]
WinTrades(ts) ==
  SelectSeq(ts, LAMBDA t : t["side"] = "sell" /\ t["exec_price"] > t["price"] * Scale)

\* the comprehension reads t['price'] of every sell: KeyError when it is absent
WinTradesRaises(ts) ==
  \E i \in 1..Len(ts) : ts[i]["side"] = "sell" /\ "price" \notin DOMAIN ts[i]

\* round((len(win_trades) / (total_trades / 2)) * 100 if total_trades >= 2 else 0.0, 2),
\* in hundredths of a percent
WinRate(wins, total_trades) ==
  IF total_trades >= 2 THEN RoundHalfEven(wins * 2 * 100 * 100, total_trades) ELSE 0

\* ----------------------------------------------------------------- actions
Init ==
  /\ pc = "start"
  /\ starting_cash \in StartingCashSet
  /\ latency_ms \in LatencySet
  /\ slippage_bps \in SlippageSet
  /\ df = << >>
  /\ cash = 0
  /\ position = 0
  /\ trades = << >>
  /\ emitted = << >>
  /\ src = << >>
  /\ result = NoResult
  /\ err = None
  /\ first = NoRun
  /\ equity_curve = << >>
  /\ metrics = NoResult

Load_StaleTrades ==
  /\ pc = "start"
  /\ \E data_csv \in CsvFiles : df' = SortValues(data_csv)
  /\ cash' = starting_cash * Scale
  /\ position' = 0
  /\ trades' = trades
  /\ pc' = "loop"
  /\ UNCHANGED << starting_cash, latency_ms, slippage_bps, emitted, src, result, err >>
  /\ UNCHANGED outside

\* lines 48-52: read and sort the bars of one of the files, create the ledger
LoadFrom(files) ==
  /\ pc = "start"
  /\ \E data_csv \in files : df' = SortValues(data_csv)
  /\ cash' = starting_cash * Scale
  /\ position' = 0
  /\ trades' = << >>
  /\ pc' = "loop"
  /\ UNCHANGED << starting_cash, latency_ms, slippage_bps, emitted, src, result, err >>
  /\ UNCHANGED outside

\* lines 48-52, on any of the files of the model
Load == LoadFrom(CsvFiles)

\* lines 54-82: the body of the loop, for the intent the strategy yields next
Process(trade) ==
  /\ pc = "loop"
  /\ emitted' = Append(emitted, trade)
  /\ LET side  == Get(trade, "side", None)
         price == Get(trade, "price", 0)
         size  == Get(trade, "size", 1)
     IN  IF "time" \notin DOMAIN trade
         THEN \* trade['time'] raises KeyError
              /\ pc' = "error"
              /\ err' = "KeyError"
              /\ UNCHANGED << cash, position, trades, src >>
         ELSE LET exec_time  == ExecTime(trade, latency_ms)
                  exec_price == ExecPrice(side, price, slippage_bps)
                  cost       == Cost(exec_price, size)
                  executed   == ExecutedTrade(trade, exec_time, exec_price)
              IN  /\ pc' = "loop"
                  /\ err' = err
                  /\ IF side = "buy" /\ BuyAccepted(cash, cost)
                     THEN /\ cash' = cash - cost
                          /\ position' = position + size
                          /\ trades' = AppendTrade(trades, executed)
                          /\ src' = Append(src, Len(emitted) + 1)
                     ELSE IF side = "sell" /\ SellAccepted(position, size)
                     THEN /\ cash' = cash + exec_price * size
                          /\ position' = position - size
                          /\ trades' = AppendTrade(trades, executed)
                          /\ src' = Append(src, Len(emitted) + 1)
                     ELSE UNCHANGED << cash, position, trades, src >>
  /\ UNCHANGED << starting_cash, latency_ms, slippage_bps, df, result >>
  /\ UNCHANGED outside

\* lines 54-82: one iteration of the loop, the strategy being any stream of at
\* most MaxIntents intents
Iterate(trade) ==
  /\ Len(emitted) < MaxIntents
  /\ Process(trade)

\* lines 84-103: the strategy is exhausted; value the ledger and return
Finish ==
  /\ pc = "loop"
  /\ IF df = << >>
     THEN \* df['close'].iloc[-1] raises IndexError
          /\ pc' = "error"
          /\ err' = "IndexError"
          /\ result' = result
     ELSE IF WinTradesRaises(trades)
     THEN /\ pc' = "error"
          /\ err' = "KeyError"
          /\ result' = result
     ELSE LET last_price   == LastPrice(df)
              equity       == Equity(cash, position, last_price)
              pnl          == Pnl(equity, starting_cash)
              total_trades == Len(trades)
              win_trades   == WinTrades(trades)
          IN  /\ pc' = "done"
              /\ err' = err
              /\ result' = [ pnl          |-> Round2(pnl),
                             final_equity |-> Round2(equity),
                             cash         |-> Round2(cash),
                             position     |-> position,  \* round(position, 4) of an integer
                             total_trades |-> total_trades,
                             win_rate     |-> WinRate(Len(win_trades), total_trades),
                             trades       |-> trades ]
  /\ UNCHANGED << starting_cash, latency_ms, slippage_bps, df, cash, position,
                  trades, emitted, src >>
  /\ UNCHANGED outside

Next == Load \/ (\E trade \in Intents : Iterate(trade)) \/ Finish

Spec == Init /\ [][Next]_vars

\* the parameters of the runs whose termination is followed: a Buy can be
\* rejected for want of cash (0, 101) or not (1000), with and without slippage
FairCashSet     == {0, 101, 1000}
FairLatencySet  == {0}
FairSlippageSet == {0, 1}

InitFair ==
  /\ Init
  /\ starting_cash \in FairCashSet
  /\ latency_ms \in FairLatencySet
  /\ slippage_bps \in FairSlippageSet

\* the interpreter keeps running the call until it returns or raises
FairSpec == InitFair /\ [][Next]_vars /\ WF_vars(Next)

\* ------------------------------------------------- two calls in one process
\* the parameters of the runs that are repeated
RunsCashSet     == {1000}
RunsLatencySet  == {0, 3}
RunsSlippageSet == {-1, 1}

InitRuns ==
  /\ Init
  /\ starting_cash \in RunsCashSet
  /\ latency_ms \in RunsLatencySet
  /\ slippage_bps \in RunsSlippageSet

\* the first call has returned or raised; run_backtest is called again in the
\* same process with the same file, strategy, starting_cash and slippage_bps
\* and any latency_ms.  The memory of the process is left as the first call
\* left it: only lines 48-52 of the second call give its locals their values.
Again ==
  /\ pc \in {"done", "error"}
  /\ ~first["ran"]
  /\ first' = [ ran |-> TRUE, pc |-> pc, latency_ms |-> latency_ms, df |-> df,
                emitted |-> emitted, cash |-> cash, position |-> position,
                trades |-> trades, result |-> result, err |-> err ]
  /\ latency_ms' \in RunsLatencySet
  /\ pc' = "start"
  /\ emitted' = << >>
  /\ src' = << >>
  /\ result' = NoResult
  /\ err' = None
  /\ UNCHANGED << starting_cash, slippage_bps, df, cash, position, trades,
                  equity_curve, metrics >>

\* line 48 of a repeated call reads the file the first call read
LoadRuns == Load /\ (first["ran"] => df' = first["df"])

\* line 54 of a repeated call: the strategy yields what it yielded before
IterateRuns(trade) ==
  IF first["ran"]
  THEN /\ Len(emitted) < Len(first["emitted"])
       /\ trade = first["emitted"][Len(emitted) + 1]
       /\ Process(trade)
  ELSE Iterate(trade)

\* lines 84-103 of a repeated call: the strategy is exhausted where it was before
FinishRuns == Finish /\ (first["ran"] => Len(emitted) = Len(first["emitted"]))

NextRuns == LoadRuns \/ (\E trade \in Intents : IterateRuns(trade)) \/ FinishRuns \/ Again

SpecRuns == InitRuns /\ [][NextRuns]_vars

\* ------------------------------------------- longer runs, one configuration
DeepSlippageSet == {-1, 1}
DeepIntents == { t \in WellFormedIntents : t["time"] = 1 }

InitDeep ==
  /\ Init
  /\ starting_cash = 1000
  /\ latency_ms = 0
  /\ slippage_bps \in DeepSlippageSet

\* lines 54-82, the strategy being any stream of at most MaxDeep intents
IterateDeep(trade) ==
  /\ Len(emitted) < MaxDeep
  /\ Process(trade)

NextDeep == Load \/ (\E trade \in DeepIntents : IterateDeep(trade)) \/ Finish

SpecDeep == InitDeep /\ [][NextDeep]_vars

\* ------------------------------------------ runs driven by simple_momentum
CloseValues == {99, 100, 101}

RECURSIVE CloseSeqsUpTo(_)
CloseSeqsUpTo(n) ==
  IF n = 0 THEN { << >> }
  ELSE LET shorter == CloseSeqsUpTo(n - 1)
       IN  shorter \cup { Append(c, v) : c \in { x \in shorter : Len(x) = n - 1 },
                                         v \in CloseValues }

\* a file whose bars have the given closes, open at their close, and are
\* stored latest first
MomentumFile(closes) ==
  [i \in 1..Len(closes) |->
     LET ts == Len(closes) + 1 - i
     IN  [timestamp |-> ts, open |-> closes[ts], close |-> closes[ts]]]

MomentumFiles == { MomentumFile(c) : c \in CloseSeqsUpTo(MaxBars) }

MomentumCashSet     == {101, 1000}
MomentumSlippageSet == {0, 1}
MomentumLatencySet  == {0, 3}

RECURSIVE MomentumFrom_SellAlways(_, _)
MomentumFrom_SellAlways(data, i) ==
  IF i > Len(data) THEN << >>
  ELSE LET prev == data[i - 1]
           cur  == data[i]
           buy  == IF cur.close > prev.close
                   THEN << [time |-> cur.timestamp, side |-> "buy", price |-> cur.open, size |-> 1] >>
                   ELSE << >>
           sell == IF i + 1 <= Len(data)
                   THEN << [time |-> data[i + 1].timestamp, side |-> "sell",
                            price |-> data[i + 1].close, size |-> 1] >>
                   ELSE << >>
       IN  buy \o sell \o MomentumFrom_SellAlways(data, i + 1)

\* sample_strategy.py lines 9-18: what the loop yields from bar i on (bar i
\* here is data.loc[i-1] there)
RECURSIVE MomentumFrom(_, _)
MomentumFrom(data, i) ==
  IF i > Len(data) THEN << >>
  ELSE LET prev == data[i - 1]
           cur  == data[i]
           now  == IF cur.close > prev.close
                   THEN << [time |-> cur.timestamp, side |-> "buy", price |-> cur.open, size |-> 1] >>
                          \o (IF i + 1 <= Len(data)
                              THEN << [time |-> data[i + 1].timestamp, side |-> "sell",
                                       price |-> data[i + 1].close, size |-> 1] >>
                              ELSE << >>)
                   ELSE << >>
       IN  now \o MomentumFrom(data, i + 1)

\* sample_strategy.py lines 3-18: the intents simple_momentum yields, in order
simple_momentum(data) == MomentumFrom(SortValues(data), 2)

InitMomentum ==
  /\ Init
  /\ starting_cash \in MomentumCashSet
  /\ latency_ms \in MomentumLatencySet
  /\ slippage_bps \in MomentumSlippageSet

\* lines 48-52, on a file of bars with open and close
LoadMomentum == LoadFrom(MomentumFiles)

\* lines 54-82 with strategy_fn = simple_momentum: the next intent it yields
IterateMomentum ==
  LET stream == simple_momentum(df)
  IN  /\ Len(emitted) < Len(stream)
      /\ Process(stream[Len(emitted) + 1])

\* lines 84-103, once simple_momentum is exhausted
FinishMomentum ==
  /\ Len(emitted) = Len(simple_momentum(df))
  /\ Finish

NextMomentum == LoadMomentum \/ IterateMomentum \/ FinishMomentum

SpecMomentum == InitMomentum /\ [][NextMomentum]_vars

\* ---------------------------------------------------------- compute_metrics
\* The equity curve is a list of positive integers.  Returns and drawdowns are
\* exact fractions << numerator, denominator >> with a positive denominator.
\* sharpe_ratio is kept as what decides it: "zero", "nan", "inf", "-inf", or
\* the sign of a finite non-zero value ("positive", "negative"), whose
\* magnitude mean / std * sqrt(252) is not rational.
EquityValues == {1, 2, 4}

RECURSIVE SeqsUpTo(_)
SeqsUpTo(n) ==
  IF n = 0 THEN { << >> }
  ELSE LET shorter == SeqsUpTo(n - 1)
       IN  shorter \cup { Append(c, v) : c \in { x \in shorter : Len(x) = n - 1 },
                                         v \in EquityValues }

EquityCurves == SeqsUpTo(MaxCurve)

\* equity_curve.pct_change().dropna(): the first entry (NaN) is dropped
PctChange(curve) ==
  [t \in 1..(IF Len(curve) = 0 THEN 0 ELSE Len(curve) - 1) |->
     << curve[t + 1] - curve[t], curve[t] >>]

RECURSIVE DenProduct(_)
DenProduct(rs) == IF rs = << >> THEN 1 ELSE Head(rs)[2] * DenProduct(Tail(rs))

\* the sign of returns.mean(): the sum of the fractions over a common denominator
RECURSIVE SumOver(_, _)
SumOver(rs, d) == IF rs = << >> THEN 0 ELSE Head(rs)[1] * (d \div Head(rs)[2]) + SumOver(Tail(rs), d)
MeanSign(rs) ==
  LET total == SumOver(rs, DenProduct(rs))
  IN  IF total > 0 THEN 1 ELSE IF total < 0 THEN -1 ELSE 0

\* returns.std() (sample standard deviation, ddof = 1): NaN for one return,
\* zero when all returns are equal, positive otherwise
StdKind(rs) ==
  IF Len(rs) < 2 THEN "nan"
  ELSE IF \A i, j \in 1..Len(rs) : rs[i][1] * rs[j][2] = rs[j][1] * rs[i][2]
       THEN "zero" ELSE "positive"

\* line 17 and round(float(sharpe), 3):
\* (returns.mean() / returns.std()) * np.sqrt(252) if not returns.empty else 0.0
SharpeRatio(curve) ==
  LET returns == PctChange(curve)
  IN  IF returns = << >> THEN "zero"
      ELSE IF StdKind(returns) = "nan" THEN "nan"
      ELSE IF StdKind(returns) = "zero"
           THEN (IF MeanSign(returns) = 0 THEN "nan"        \* 0.0 / 0.0
                 ELSE IF MeanSign(returns) > 0 THEN "inf" ELSE "-inf")
      ELSE IF MeanSign(returns) = 0 THEN "zero"
      ELSE IF MeanSign(returns) > 0 THEN "positive" ELSE "negative"

\* the greater of two integers
Max2(a, b) == IF a >= b THEN a ELSE b

CumMax_Global(curve) ==
  [t \in 1..Len(curve) |->
     CHOOSE m \in {curve[i] : i \in 1..Len(curve)} : \A i \in 1..Len(curve) : curve[i] <= m]

\* equity_curve.cummax()
RECURSIVE CumMax(_)
CumMax(curve) ==
  IF Len(curve) <= 1 THEN curve
  ELSE LET front == CumMax(SubSeq(curve, 1, Len(curve) - 1))
       IN  Append(front, Max2(front[Len(front)], curve[Len(curve)]))

\* drawdown = (equity_curve - rolling_max) / rolling_max
Drawdown(curve) ==
  LET rolling_max == CumMax(curve)
  IN  [t \in 1..Len(curve) |-> << curve[t] - rolling_max[t], rolling_max[t] >>]

\* drawdown.min(): a smallest fraction of a non-empty list
MinFraction(fs) ==
  fs[CHOOSE t \in 1..Len(fs) : \A u \in 1..Len(fs) : fs[t][1] * fs[u][2] <= fs[u][1] * fs[t][2]]

\* line 21 and round(float(max_drawdown * 100), 2), in hundredths of a percent
MaxDrawdown(curve) ==
  LET drawdown == Drawdown(curve)
  IN  IF drawdown = << >> THEN 0
      ELSE RoundHalfEven(MinFraction(drawdown)[1] * 100 * 100, MinFraction(drawdown)[2])

InitMetrics ==
  /\ pc = "metrics"
  /\ starting_cash = 0 /\ latency_ms = 0 /\ slippage_bps = 0
  /\ df = << >> /\ cash = 0 /\ position = 0 /\ trades = << >>
  /\ emitted = << >> /\ src = << >> /\ result = NoResult /\ err = None
  /\ first = NoRun
  /\ equity_curve \in EquityCurves
  /\ metrics = NoResult

\* lines 14-26
ComputeMetrics ==
  /\ pc = "metrics"
  /\ metrics = NoResult
  /\ metrics' = [ sharpe_ratio |-> SharpeRatio(equity_curve),
                  max_drawdown |-> MaxDrawdown(equity_curve) ]
  /\ UNCHANGED << pc, starting_cash, latency_ms, slippage_bps, df, cash, position,
                  trades, emitted, src, result, err, first, equity_curve >>

NextMetrics == ComputeMetrics

SpecMetrics == InitMetrics /\ [][NextMetrics]_vars

\* ------------------------------------------------------------------ claims
\* the intent handled by the step that has just been taken
Processed == Len(emitted') = Len(emitted) + 1
Current == emitted'[Len(emitted')]

\* an intent as the interface describes it: all four fields, side buy or sell
IsWellFormed(t) == DOMAIN t = Keys /\ t["side"] \in {"buy", "sell"}
PositiveIntent(t) == IsWellFormed(t) /\ t["price"] > 0 /\ t["size"] > 0

\* exec_price and cost = exec_price * size of an intent under the run's slippage
ExecPriceOf(t) == ExecPrice(t["side"], t["price"], slippage_bps)
CostOf(t) == ExecPriceOf(t) * t["size"]

\* every intent yielded so far is well-formed, of positive price and size
AllPositive == \A i \in 1..Len(emitted) : PositiveIntent(emitted[i])

\* the run was given the inputs the contract allows
ValidRun == pc # "start" /\ starting_cash > 0 /\ latency_ms >= 0 /\ df # << >>

\* C1: cash >= 0 after every processed intent, for starting_cash > 0 and
\* latency_ms >= 0 and any slippage_bps.  Stated on the narrowest reading of
\* "intents a strategy may emit": well-formed intents of positive price and size.
C1_CashNonNegative ==
  (ValidRun /\ AllPositive) => cash >= 0

\* C2: position >= 0 after every processed intent (no short selling).
C2_PositionNonNegative == ValidRun => position >= 0

\* C3: a rejected intent (a Buy with cost > cash, a Sell with size > position)
\* leaves cash, position and trades as they were.
C3_RejectedChangesNothing ==
  [][ ( /\ Processed
        /\ IsWellFormed(Current)
        /\ \/ Current["side"] = "buy"  /\ CostOf(Current) > cash
           \/ Current["side"] = "sell" /\ Current["size"] > position )
      => UNCHANGED << cash, position, trades >> ]_vars

\* C3 witness: a Buy that cost more than the cash, then a Sell larger than the
\* position, have both been processed and the ledger is the initial one.
C3_Witness ==
  /\ pc = "loop"
  /\ ValidRun
  /\ Len(emitted) = 2
  /\ IsWellFormed(emitted[1]) /\ emitted[1]["side"] = "buy"
  /\ CostOf(emitted[1]) > starting_cash * Scale
  /\ IsWellFormed(emitted[2]) /\ emitted[2]["side"] = "sell"
  /\ emitted[2]["size"] > 0
  /\ cash = starting_cash * Scale /\ position = 0 /\ trades = << >>

\* C4: an accepted intent is filled in full: a Buy with cash >= cost (equality
\* included) debits exactly cost, credits exactly size and appends exactly one
\* executed trade; a Sell with position >= size (equality included) credits
\* exactly exec_price * size, debits exactly size and appends exactly one.
C4_AcceptedFilledInFull ==
  [][ ( Processed /\ IsWellFormed(Current) ) =>
      LET t == Current
          filled == Append(trades,
                      [ time |-> t["time"], side |-> t["side"], price |-> t["price"],
                        size |-> t["size"],
                        exec_time |-> t["time"] + latency_ms,
                        exec_price |-> ExecPriceOf(t) ])
      IN  /\ (t["side"] = "buy" /\ cash >= CostOf(t)) =>
                /\ cash' = cash - CostOf(t)
                /\ position' = position + t["size"]
                /\ trades' = filled
          /\ (t["side"] = "sell" /\ position >= t["size"]) =>
                /\ cash' = cash + CostOf(t)
                /\ position' = position - t["size"]
                /\ trades' = filled ]_vars

\* C4 witness: a Buy costing exactly all the cash was filled, then a Sell of
\* exactly the whole position was filled.
C4_Witness ==
  /\ ValidRun
  /\ Len(emitted) = 2 /\ Len(trades) = 2
  /\ PositiveIntent(emitted[1]) /\ PositiveIntent(emitted[2])
  /\ trades[1]["side"] = "buy"
  /\ trades[1]["exec_price"] * trades[1]["size"] = starting_cash * Scale
  /\ trades[2]["side"] = "sell" /\ trades[2]["size"] = trades[1]["size"]
  /\ position = 0

\* C5: trades is exactly the accepted intents among those emitted so far, in
\* emission order; a step appends the intent it processes or leaves trades
\* alone, and never removes, moves or reorders (by time) a recorded trade.
C5_TradesInEmissionOrder ==
  /\ [] ( /\ Len(src) = Len(trades)
          /\ \A i \in 1..Len(trades) :
                /\ src[i] \in 1..Len(emitted)
                /\ \A k \in DOMAIN emitted[src[i]] : trades[i][k] = emitted[src[i]][k]
          /\ \A i, j \in 1..Len(trades) : i < j => src[i] < src[j] )
  /\ [][ /\ Len(trades') >= Len(trades)
         /\ SubSeq(trades', 1, Len(trades)) = trades
         /\ Len(trades') <= Len(trades) + 1
         /\ Len(trades') = Len(trades) + 1 =>
               Processed /\ src'[Len(src')] = Len(emitted')
         /\ (Processed /\ IsWellFormed(Current)) =>
               ( Len(trades') = Len(trades) + 1 <=>
                   \/ Current["side"] = "buy"  /\ cash >= CostOf(Current)
                   \/ Current["side"] = "sell" /\ position >= Current["size"] ) ]_vars

\* C5 witness: two accepted intents recorded in emission order although the
\* first carries the later time.
C5_Witness ==
  /\ ValidRun
  /\ Len(emitted) = 2 /\ Len(trades) = 2
  /\ src = << 1, 2 >>
  /\ trades[1]["time"] > trades[2]["time"]
  /\ trades[1]["exec_time"] > trades[2]["exec_time"]

\* the close of the bar with the greatest timestamp
LatestClose ==
  (CHOOSE b \in {df[i] : i \in 1..Len(df)} :
     \A i \in 1..Len(df) : df[i].timestamp <= b.timestamp).close

ScenarioIntents ==
  << [time |-> 1, side |-> "buy",  price |-> 101, size |-> 1],
     [time |-> 2, side |-> "sell", price |-> 99,  size |-> 1] >>

\* C6: the returned equity is cash + position * (close of the last bar by
\* timestamp) and pnl is equity - starting_cash, from the final ledger (each
\* rounded to 2 places on return); with starting_cash 1000, slippage 0 and
\* Buy(101, 1), Sell(99, 1): cash 998, position 0, equity 998, pnl -2, 2 trades.
C6_TerminalValuation ==
  pc = "done" =>
    /\ result["final_equity"] = Round2(cash + position * LatestClose * Scale)
    /\ result["pnl"] = Round2(cash + position * LatestClose * Scale - starting_cash * Scale)
    /\ result["pnl"] = result["final_equity"] - starting_cash * Cent
    /\ result["cash"] = Round2(cash)
    /\ result["position"] = position
    /\ (starting_cash = 1000 /\ slippage_bps = 0 /\ emitted = ScenarioIntents) =>
          /\ result["cash"] = 998 * Cent
          /\ result["position"] = 0
          /\ result["final_equity"] = 998 * Cent
          /\ result["pnl"] = (-2) * Cent
          /\ result["total_trades"] = 2

\* C6 witness: a run returned with an open position, valued at the latest close.
C6_Witness ==
  /\ pc = "done"
  /\ ValidRun
  /\ position > 0
  /\ Len(df) > 1
  /\ result["final_equity"] # result["cash"]

\* C6 witness of the scenario: the run of the concrete scenario returned.
C6_ScenarioReached ==
  pc = "done" /\ starting_cash = 1000 /\ slippage_bps = 0 /\ emitted = ScenarioIntents

\* the executed trades alternate Buy, Sell, Buy, Sell, ... in complete pairs
Alternating ==
  /\ Len(trades) % 2 = 0
  /\ \A i \in 1..Len(trades) :
        /\ IsWellFormed(emitted[src[i]])
        /\ trades[i]["side"] = (IF i % 2 = 1 THEN "buy" ELSE "sell")

\* the round-trips (trades[2k-1], trades[2k]) whose Sell executed above the
\* original price of its Buy
WinningRoundTrips ==
  { k \in 1..(Len(trades) \div 2) :
      trades[2 * k]["exec_price"] > trades[2 * k - 1]["price"] * Scale }

\* C7: win_rate is the percentage of Buy->Sell round-trips whose Sell has
\* exec_price strictly above the paired Buy's original price, and 0 when
\* fewer than 2 trades were executed.
C7_WinRateAgainstPairedBuy ==
  (pc = "done" /\ ValidRun /\ AllPositive /\ Alternating) =>
    result["win_rate"] =
      (IF Len(trades) < 2 THEN 0
       ELSE RoundHalfEven(Cardinality(WinningRoundTrips) * 100 * 100, Len(trades) \div 2))

\* C8: a run with starting_cash <= 0 or latency_ms < 0 fails with ConfigError
\* before any intent is processed: nothing is accepted, nothing is returned.
C8_ConfigErrorBeforeProcessing ==
  ((starting_cash <= 0 \/ latency_ms < 0) /\ pc # "start" /\ df # << >> /\ AllPositive) =>
    /\ trades = << >>
    /\ result = NoResult
    /\ pc \in {"done", "error"} => err = "ConfigError"

\* C9: a malformed intent (unknown side, or a missing field) aborts the run;
\* the engine never goes on to a normal result, neither by defaulting the
\* missing field nor by skipping the intent.
C9_MalformedIntentAborts ==
  (ValidRun /\ pc = "done") =>
    \A i \in 1..Len(emitted) : IsWellFormed(emitted[i])

\* C10: a run over an empty bar series fails with DataError before any intent
\* is processed and returns nothing.
C10_EmptyBarsDataError ==
  (pc # "start" /\ df = << >> /\ starting_cash > 0 /\ latency_ms >= 0 /\ AllPositive) =>
    /\ emitted = << >>
    /\ result = NoResult
    /\ pc \in {"done", "error"} => err = "DataError"

\* every intent yielded so far has all four fields and side buy or sell
AllWellFormed == \A i \in 1..Len(emitted) : IsWellFormed(emitted[i])

\* the number of intents among emitted[i..] that pass their check, from a
\* ledger of cash c and position p: a Buy passes when c >= cost, a Sell when
\* p >= size, and an intent that fails changes nothing
RECURSIVE CountAccepted(_, _, _)
CountAccepted(i, c, p) ==
  IF i > Len(emitted) THEN 0
  ELSE LET t == emitted[i]
       IN  IF t["side"] = "buy" /\ c >= CostOf(t)
           THEN 1 + CountAccepted(i + 1, c - CostOf(t), p + t["size"])
           ELSE IF t["side"] = "sell" /\ p >= t["size"]
           THEN 1 + CountAccepted(i + 1, c + CostOf(t), p - t["size"])
           ELSE CountAccepted(i + 1, c, p)

\* C11: rejections never stop the run.  Every run ends; it ends in an error
\* only on empty bars or a malformed intent, never on a rejection; processing
\* a well-formed intent, accepted or rejected, leaves the loop running; and
\* the returned total_trades is the number of intents that passed their check.
C11_RejectionsNeverStop ==
  /\ <>(pc \in {"done", "error"})
  /\ [](pc = "error" => (df = << >> \/ ~AllWellFormed))
  /\ []((pc = "done" /\ AllWellFormed) =>
          result["total_trades"] = CountAccepted(1, starting_cash * Scale, 0))
  /\ [][(Processed /\ IsWellFormed(Current)) => pc' = "loop"]_vars

\* C11 witness: a run returned after a rejected Buy followed by an accepted one.
C11_Witness ==
  /\ pc = "done"
  /\ ValidRun
  /\ Len(emitted) = 2 /\ AllPositive
  /\ emitted[1]["side"] = "buy" /\ CostOf(emitted[1]) > starting_cash * Scale
  /\ src = << 2 >>
  /\ result["total_trades"] = 1

\* the exec_price of every executed trade is price +/- price * slippage_bps / 10000
SlippageApplied ==
  \A i \in 1..Len(trades) :
     LET t == trades[i]
         price == Get(t, "price", 0)
     IN  /\ t["side"] = "buy"  => t["exec_price"] = price * Scale + price * slippage_bps
         /\ t["side"] = "sell" => t["exec_price"] = price * Scale - price * slippage_bps

\* no executed Buy paid less than its price, no executed Sell received more
SlippageAdverse ==
  \A i \in 1..Len(trades) :
     LET t == trades[i]
         price == Get(t, "price", 0)
     IN  /\ t["side"] = "buy"  => t["exec_price"] >= price * Scale
         /\ t["side"] = "sell" => t["exec_price"] <= price * Scale

\* C13 as stated: for every slippage_bps the engine accepts, every executed
\* intent has exec_price = price +/- price * slippage_bps / 10000 and slippage
\* works against the trader (Buy pays at least price, Sell receives at most).
C13_SlippageAlwaysAdverse ==
  (ValidRun /\ AllPositive) => (SlippageApplied /\ SlippageAdverse)

\* C13 amended: every executed intent has exec_price = price +/- price *
\* slippage_bps / 10000; slippage works against the trader when slippage_bps
\* >= 0 (and prices are not negative).
C13_SlippageAdverseWhenNonNegative ==
  pc # "start" =>
    /\ SlippageApplied
    /\ ( /\ slippage_bps >= 0
         /\ \A i \in 1..Len(trades) : Get(trades[i], "price", 0) >= 0 )
       => SlippageAdverse

\* C13 witness: a Buy executed above its price and a Sell below its price.
C13_Witness ==
  /\ ValidRun /\ AllPositive
  /\ slippage_bps > 0
  /\ Len(trades) = 2
  /\ trades[1]["side"] = "buy"  /\ trades[1]["exec_price"] > trades[1]["price"] * Scale
  /\ trades[2]["side"] = "sell" /\ trades[2]["exec_price"] < trades[2]["price"] * Scale

\* a trade without its exec_time
WithoutExecTime(t) == [k \in (DOMAIN t) \ {"exec_time"} |-> t[k]]

\* the second of two calls has returned or raised
SecondEnded == first["ran"] /\ pc \in {"done", "error"}

\* C12: latency_ms influences only exec_time = time + latency_ms: two runs
\* that differ only in latency_ms end the same way, with the same trades but
\* for exec_time, the same cash and position and the same pnl, equity,
\* total_trades and win_rate.
C12_LatencyOnlyShiftsExecTime ==
  /\ pc # "start" =>
        \A i \in 1..Len(trades) : trades[i]["exec_time"] = trades[i]["time"] + latency_ms
  /\ SecondEnded =>
        /\ pc = first["pc"] /\ err = first["err"]
        /\ cash = first["cash"] /\ position = first["position"]
        /\ Len(trades) = Len(first["trades"])
        /\ \A i \in 1..Len(trades) :
              WithoutExecTime(trades[i]) = WithoutExecTime(first["trades"][i])
        /\ pc = "done" =>
              \A k \in {"pnl", "final_equity", "cash", "position", "total_trades", "win_rate"} :
                 result[k] = first["result"][k]

\* C12 witness: two runs with different latency_ms have both returned, with
\* two trades each and a non-zero win rate.
C12_Witness ==
  /\ SecondEnded /\ pc = "done"
  /\ latency_ms # first["latency_ms"]
  /\ Len(trades) = 2
  /\ trades[1]["exec_time"] # first["trades"][1]["exec_time"]
  /\ result["win_rate"] > 0

\* C14: the engine is deterministic and keeps nothing between runs: a second
\* run in the same process with identical inputs ends as the first did, with
\* identical cash, position, trades and result.
C14_SameInputsSameResult ==
  (SecondEnded /\ latency_ms = first["latency_ms"]) =>
     /\ pc = first["pc"] /\ err = first["err"]
     /\ cash = first["cash"] /\ position = first["position"]
     /\ trades = first["trades"]
     /\ result = first["result"]

\* C14 witness: the second of two runs with identical inputs has returned
\* after accepting one intent and rejecting another.
C14_Witness ==
  /\ SecondEnded /\ pc = "done"
  /\ latency_ms = first["latency_ms"]
  /\ Len(emitted) = 2 /\ Len(trades) = 1
  /\ result["total_trades"] = 1

\* compute_metrics has returned
MetricsReturned == metrics # NoResult

\* every point of the curve equals the first
Flat == \A t \in 1..Len(equity_curve) : equity_curve[t] = equity_curve[1]

\* the per-step returns (e[t+1] - e[t]) / e[t] are all equal: their standard
\* deviation is exactly zero
ZeroDeviation ==
  /\ Len(equity_curve) >= 3
  /\ \A t, u \in 1..(Len(equity_curve) - 1) :
        (equity_curve[t + 1] - equity_curve[t]) * equity_curve[u]
          = (equity_curve[u + 1] - equity_curve[u]) * equity_curve[t]

\* C15: sharpe_ratio is 0 (not NaN, not an error) when the curve has fewer
\* than 2 points or the standard deviation of its returns is exactly zero, in
\* particular for every flat curve of any length.
C15_SharpeZeroOnDegenerateCurve ==
  (MetricsReturned /\ (Len(equity_curve) < 2 \/ Flat \/ ZeroDeviation)) =>
     metrics["sharpe_ratio"] = "zero"

\* the greatest of the first t points of the curve
RunningMax(t) ==
  CHOOSE m \in {equity_curve[i] : i \in 1..t} : \A i \in 1..t : equity_curve[i] <= m

\* (equity[t] - running_max[t]) / running_max[t] * 100, rounded to 2 places,
\* in hundredths of a percent
DrawdownAt(t) == RoundHalfEven((equity_curve[t] - RunningMax(t)) * 100 * 100, RunningMax(t))

NonDecreasing ==
  \A t \in 1..(Len(equity_curve) - 1) : equity_curve[t] <= equity_curve[t + 1]

\* C16: max_drawdown is the minimum over t of (equity[t] - running_max[t]) /
\* running_max[t] times 100; it is <= 0 for every curve of positive values
\* and exactly 0 for every non-decreasing curve.
C16_MaxDrawdown ==
  MetricsReturned =>
    /\ \A t \in 1..Len(equity_curve) : metrics["max_drawdown"] <= DrawdownAt(t)
    /\ Len(equity_curve) > 0 =>
          \E t \in 1..Len(equity_curve) : metrics["max_drawdown"] = DrawdownAt(t)
    /\ metrics["max_drawdown"] <= 0
    /\ NonDecreasing => metrics["max_drawdown"] = 0

\* C16 witness: a curve that rises, falls below its peak and recovers in
\* part; the drawdown reported is the one at the trough.
C16_Witness ==
  /\ MetricsReturned
  /\ Len(equity_curve) = 4
  /\ equity_curve[1] < equity_curve[2]
  /\ equity_curve[3] < equity_curve[2]
  /\ equity_curve[3] < equity_curve[4] /\ equity_curve[4] < equity_curve[2]
  /\ metrics["max_drawdown"] = DrawdownAt(3)
  /\ metrics["max_drawdown"] < DrawdownAt(4)

\* C17: the returned win_rate lies in [0, 100] (in hundredths: 0..10000)
\* whatever the sequence of executed trades.
C17_WinRateInRange ==
  (pc = "done" /\ ValidRun /\ AllPositive) =>
     (0 <= result["win_rate"] /\ result["win_rate"] <= 100 * 100)

\* the sides B, S, B, S, ... of a list of intents or trades
Alternates(ts) ==
  \A i \in 1..Len(ts) : ts[i]["side"] = (IF i % 2 = 1 THEN "buy" ELSE "sell")

\* C18: the intents simple_momentum emits alternate Buy, Sell, Buy, Sell, ...
\* from a Buy, all of size 1 and of non-decreasing time; so in a run driven
\* by simple_momentum position is 0 or 1 and the executed trades alternate
\* Buy, Sell as well.
C18_MomentumAlternates ==
  pc # "start" =>
    /\ Alternates(emitted)
    /\ \A i \in 1..Len(emitted) : IsWellFormed(emitted[i]) /\ emitted[i]["size"] = 1
    /\ \A i \in 1..(Len(emitted) - 1) : emitted[i]["time"] <= emitted[i + 1]["time"]
    /\ position \in {0, 1}
    /\ Alternates(trades)
    /\ pc = "done" => (Len(emitted) % 2 = 1 => emitted[Len(emitted)]["time"] = Len(df))

\* C18 witness: a run on three rising bars returned after Buy, Sell and a
\* final unpaired Buy were all executed.
C18_Witness ==
  /\ pc = "done"
  /\ Len(df) = 3
  /\ Len(emitted) = 3 /\ Len(trades) = 3
  /\ position = 1

\* C18 witness of a rejection: a Buy was rejected and the Sell after it too.
C18_RejectionReached ==
  /\ pc = "done"
  /\ Len(emitted) >= 2
  /\ trades = << >>

====
